---- MODULE Spec2Model ----
(***************************************************************************)
(* A model of salt/utils/saltclass.py: the deep merge (dict_merge), the    *)
(* variable expander (expand_variables and its helpers), and the class     *)
(* expansion engine (expand_classes_in_order, expanded_dict_from_minion,   *)
(* get_pillars).                                                           *)
(*                                                                         *)
(* Python dicts and lists are mutable objects with identity, and the code  *)
(* stores references to them (a[key] = b[key]).  The model therefore keeps *)
(* a heap: a sequence of objects, an address being an index into it.       *)
(* Strings are sequences of characters, a character being a TLA+ string.   *)
(***************************************************************************)
EXTENDS Integers, Sequences, FiniteSets, TLC

-----------------------------------------------------------------------------
(* Values.  A value is a scalar (str, int, none) or a reference to a heap  *)
(* object.  All values are records of one shape so that they compare.      *)

VStr(s) == [t |-> "str", s |-> s, r |-> 0]
VInt(s) == [t |-> "int", s |-> s, r |-> 0]
VNone == [t |-> "none", s |-> <<>>, r |-> 0]
VRef(a) == [t |-> "ref", s |-> <<>>, r |-> a]

(* Heap objects: a dict keeps its keys in insertion order, with the values *)
(* in a parallel sequence; a list has no keys.                             *)
DictObj(ks, vs) == [t |-> "dict", ks |-> ks, vs |-> vs]
ListObj(vs) == [t |-> "list", ks |-> <<>>, vs |-> vs]

IsRef(v) == v.t = "ref"
IsStr(v) == v.t = "str"
IsDict(h, v) == v.t = "ref" /\ h[v.r].t = "dict"
IsList(h, v) == v.t = "ref" /\ h[v.r].t = "list"

(* Documents as parsed YAML, before they become heap objects: trees.       *)
TStr(s) == [t |-> "str", s |-> s, ks |-> <<>>, vs |-> <<>>]
TInt(s) == [t |-> "int", s |-> s, ks |-> <<>>, vs |-> <<>>]
TNone == [t |-> "none", s |-> <<>>, ks |-> <<>>, vs |-> <<>>]
TDict(ks, vs) == [t |-> "dict", s |-> <<>>, ks |-> ks, vs |-> vs]
TList(vs) == [t |-> "list", s |-> <<>>, ks |-> <<>>, vs |-> vs]
TEmpty == TDict(<<>>, <<>>)

(* Position of key k in a key sequence, 0 when absent.                     *)
KeyIndex(ks, k) ==
  IF \E i \in 1..Len(ks) : ks[i] = k
  THEN CHOOSE i \in 1..Len(ks) : ks[i] = k
  ELSE 0

HasKey(o, k) == KeyIndex(o.ks, k) # 0
Item(o, k) == o.vs[KeyIndex(o.ks, k)]

(* d[k] = v on the dict at address d: an existing key keeps its position.  *)
SetItem(h, d, k, v) ==
  IF HasKey(h[d], k)
  THEN [h EXCEPT ![d].vs[KeyIndex(h[d].ks, k)] = v]
  ELSE [h EXCEPT ![d].ks = Append(@, k), ![d].vs = Append(@, v)]

(* The same on trees.                                                      *)
THas(t, k) == t.t = "dict" /\ KeyIndex(t.ks, k) # 0
TItem(t, k) == t.vs[KeyIndex(t.ks, k)]
TGet(t, k, dflt) == IF THas(t, k) THEN TItem(t, k) ELSE dflt

(* Building objects from a parsed document (the YAML loader's result), and *)
(* reading a heap value back as a tree.                                    *)
RECURSIVE AllocTree(_, _)
RECURSIVE AllocSeq(_, _, _, _)
(* The object itself, once its children c = [h, v] are built.              *)
NewObject(c, t) ==
  [h |-> Append(c.h, [t |-> t.t, ks |-> t.ks, vs |-> c.v]),
   v |-> VRef(Len(c.h) + 1)]

AllocTree(h, t) ==
  IF t.t \notin {"dict", "list"}
  THEN [h |-> h, v |-> [t |-> t.t, s |-> t.s, r |-> 0]]
  ELSE NewObject(AllocSeq(h, t.vs, 1, <<>>), t)

AllocSeqNext(c, ts, i, acc) == AllocSeq(c.h, ts, i + 1, Append(acc, c.v))

AllocSeq(h, ts, i, acc) ==
  IF i > Len(ts) THEN [h |-> h, v |-> acc]
  ELSE AllocSeqNext(AllocTree(h, ts[i]), ts, i, acc)

RECURSIVE Freeze(_, _)
Freeze(h, v) ==
  IF v.t # "ref" THEN [t |-> v.t, s |-> v.s, ks |-> <<>>, vs |-> <<>>]
  ELSE [t |-> h[v.r].t, s |-> <<>>, ks |-> h[v.r].ks,
        vs |-> [i \in 1..Len(h[v.r].vs) |-> Freeze(h, h[v.r].vs[i])]]

(* copy.deepcopy of a value: fresh objects throughout.                     *)
DeepCopy(h, v) == AllocTree(h, Freeze(h, v))

(* Results of operations that may raise.                                   *)
Ok(h) == [h |-> h, err |-> "none"]
Raise(h, e) == [h |-> h, err |-> e]

-----------------------------------------------------------------------------
(* dict_merge(a, b): merge the dict at address b into the dict at a.       *)

Caret == VStr(<<"^">>)

(* The list branch of dict_merge, lines 124-129.                           *)
MergeLists(h, a, key, av, bv) ==
  IF Len(h[bv.r].vs) = 0 THEN Raise(h, "IndexError")
  ELSE IF h[bv.r].vs[1] = Caret
  THEN Ok(SetItem([h EXCEPT ![bv.r].vs = Tail(@)], a, key, bv))
  ELSE Ok([h EXCEPT ![av.r].vs = @ \o h[bv.r].vs])

RECURSIVE dict_merge_from(_, _, _, _)
(* Lines 124-135: key is in a, with value av; b's value is bv.             *)
MergeValue(h, a, key, av, bv) ==
  IF IsList(h, av) /\ IsList(h, bv) THEN MergeLists(h, a, key, av, bv)
  ELSE IF IsDict(h, av) /\ IsDict(h, bv) THEN dict_merge_from(h, av.r, bv.r, 1)
  ELSE IF av = bv /\ ~IsRef(av) THEN Ok(h)
  ELSE Ok(SetItem(h, a, key, bv))

(* Lines 123-137: one key of b.                                            *)
MergeKey(h, a, key, bv) ==
  IF HasKey(h[a], key) THEN MergeValue(h, a, key, Item(h[a], key), bv)
  ELSE Ok(SetItem(h, a, key, bv))

(* The loop of line 122 goes on unless the key's merge raised.             *)
MergeNext(m, a, b, i) ==
  IF m.err # "none" THEN m ELSE dict_merge_from(m.h, a, b, i + 1)

dict_merge_from(h, a, b, i) ==
  IF i > Len(h[b].ks) THEN Ok(h)
  ELSE MergeNext(MergeKey(h, a, h[b].ks[i], h[b].vs[i]), a, b, i)

dict_merge(h, a, b) == dict_merge_from(h, a, b, 1)

-----------------------------------------------------------------------------
(* Strings: sequences of characters.                                       *)

StartsAt(s, p, i) ==
  /\ i >= 1
  /\ i + Len(p) - 1 <= Len(s)
  /\ \A j \in 1..Len(p) : s[i + j - 1] = p[j]

(* First index >= i where p occurs in s, 0 when there is none.             *)
FindFrom(s, p, i) ==
  IF \E j \in i..Len(s) : StartsAt(s, p, j)
  THEN CHOOSE j \in i..Len(s) :
         StartsAt(s, p, j) /\ \A l \in i..(j - 1) : ~StartsAt(s, p, l)
  ELSE 0

(* sub in s, for strings.                                                  *)
Contains(s, p) == Len(p) = 0 \/ FindFrom(s, p, 1) # 0

(* s.replace(old, new) for a non-empty old: every occurrence, left to      *)
(* right, without overlap.                                                 *)
RECURSIVE ReplaceFrom(_, _, _, _)
ReplaceFrom(s, old, new, i) ==
  LET j == FindFrom(s, old, i)
  IN IF j = 0 THEN SubSeq(s, i, Len(s))
     ELSE SubSeq(s, i, j - 1) \o new \o ReplaceFrom(s, old, new, j + Len(old))

Replace(s, old, new) == ReplaceFrom(s, old, new, 1)

(* s.split(":")                                                            *)
RECURSIVE Split(_)
Split(s) ==
  LET j == FindFrom(s, <<":">>, 1)
  IN IF j = 0 THEN <<s>>
     ELSE <<SubSeq(s, 1, j - 1)>> \o Split(SubSeq(s, j + 1, Len(s)))

(* s.lstrip("\\")                                                          *)
RECURSIVE LStrip(_)
LStrip(s) == IF Len(s) > 0 /\ s[1] = "\\" THEN LStrip(Tail(s)) ELSE s

(* re.finditer(r"(^|.)\$\{.*?\}", s): the matched substrings in order.     *)
(* MatchEnd(s, p) is the index of the last character of the match that     *)
(* starts at p, 0 when none starts there.  "^" matches only before the     *)
(* first character, "." takes exactly one character, ".*?" stops at the    *)
(* first "}".                                                              *)
FirstClose(s, i) == FindFrom(s, <<"}">>, i)

MatchEnd(s, p) ==
  IF p = 1 /\ StartsAt(s, <<"$", "{">>, 1) /\ FirstClose(s, 3) # 0
  THEN FirstClose(s, 3)
  ELSE IF StartsAt(s, <<"$", "{">>, p + 1) /\ FirstClose(s, p + 3) # 0
  THEN FirstClose(s, p + 3)
  ELSE 0

RECURSIVE finditer(_, _)
finditer(s, p) ==
  IF \E q \in p..Len(s) : MatchEnd(s, q) # 0
  THEN LET q == CHOOSE q \in p..Len(s) :
                  MatchEnd(s, q) # 0 /\ \A l \in p..(q - 1) : MatchEnd(s, l) = 0
       IN <<SubSeq(s, q, MatchEnd(s, q))>> \o finditer(s, MatchEnd(s, q) + 1)
  ELSE <<>>

-----------------------------------------------------------------------------
(* The variable expander.                                                  *)

(* dict_search_and_replace(d, old, new, expanded): in place, on the dict   *)
(* at address d; old and new are strings.  It never raises.                *)
RECURSIVE dict_search_and_replace_from(_, _, _, _, _)
RECURSIVE SearchList(_, _, _, _, _)
(* Lines 157-158 and 152-154: the entry at position i of object o.         *)
ReplaceAt(h, o, i, old, new) ==
  IF h[o].vs[i] = VStr(old) THEN [h EXCEPT ![o].vs[i] = VStr(new)] ELSE h

(* Lines 144-155: below a dict's value v.                                  *)
SearchValue(h, v, old, new) ==
  IF IsDict(h, v) THEN dict_search_and_replace_from(h, v.r, old, new, 1)
  ELSE IF IsList(h, v) THEN SearchList(h, v.r, old, new, 1)
  ELSE h

(* Lines 150-151: below a list's element e.                                *)
SearchElem(h, e, old, new) ==
  IF IsDict(h, e) THEN dict_search_and_replace_from(h, e.r, old, new, 1) ELSE h

dict_search_and_replace_from(h, d, old, new, i) ==
  IF i > Len(h[d].ks) THEN h
  ELSE dict_search_and_replace_from(
         ReplaceAt(SearchValue(h, h[d].vs[i], old, new), d, i, old, new),
         d, old, new, i + 1)

SearchList(h, l, old, new, x) ==
  IF x > Len(h[l].vs) THEN h
  ELSE SearchList(
         ReplaceAt(SearchElem(h, h[l].vs[x], old, new), l, x, old, new),
         l, old, new, x + 1)

dict_search_and_replace(h, d, old, new) ==
  dict_search_and_replace_from(h, d, old, new, 1)

(* find_value_to_expand(x, v): descend from the dict at address x along    *)
(* the path of the token v.  The result is [err, v].                       *)
Found(v) == [err |-> "none", v |-> v]
Failed(e) == [err |-> e, v |-> VNone]

RECURSIVE WalkPath(_, _, _, _, _)
WalkPath(h, a, segs, i, v) ==
  IF i > Len(segs) THEN Found(a)
  ELSE IF a.t = "none" THEN Found(VStr(v))
  ELSE IF a.t = "int" THEN Failed("TypeError")
  ELSE IF a.t = "str"
  THEN IF Contains(a.s, segs[i]) THEN Failed("AttributeError")
       ELSE Found(VStr(v))
  ELSE IF IsList(h, a)
  THEN IF \E x \in 1..Len(h[a.r].vs) : h[a.r].vs[x] = VStr(segs[i])
       THEN Failed("AttributeError")
       ELSE Found(VStr(v))
  ELSE IF HasKey(h[a.r], segs[i])
  THEN WalkPath(h, Item(h[a.r], segs[i]), segs, i + 1, v)
  ELSE Found(VStr(v))

find_value_to_expand(h, x, v) ==
  WalkPath(h, VRef(x), Split(SubSeq(v, 3, Len(v) - 1)), 1, v)

(* find_and_process_re(_str, v, k, b, expanded): b is the address of the   *)
(* tree's root; v is the value the string came from (the string itself or  *)
(* the list holding it).  The list `expanded` is only ever appended to and *)
(* is left out.  One match leaves [h, err, str, v]: the heap, the error    *)
(* raised, and the loop's _str and v.                                      *)
Step(h, e, str, v) == [h |-> h, err |-> e, str |-> str, v |-> v]

(* What str.replace makes of the value f = [err, v] that was looked up.    *)
Looked(f) ==
  IF f.err # "none" THEN f.err
  ELSE IF ~IsStr(f.v) THEN "TypeError"
  ELSE "none"

(* Lines 183-185: an escaped match; _str and v stay.                       *)
Unescape(h, b, re_str, str, v) ==
  Step(dict_search_and_replace(h, b, str, Replace(str, re_str, LStrip(re_str))),
       "none", str, v)

(* Lines 189-190 and 198-200, v_new being known.                           *)
Rewrite(h, b, str, v_new, v) ==
  Step(dict_search_and_replace(h, b, str, v_new), "none", v_new, v)

(* Lines 187-191: a match with a leading character; token is the match     *)
(* without it, f the value found for it.                                   *)
AfterLead(h, b, token, f, str, v) ==
  IF Looked(f) # "none" THEN Step(h, Looked(f), str, v)
  ELSE Rewrite(h, b, str, Replace(str, token, f.v.s), v)

(* Line 200: v becomes v_new too.                                          *)
RewriteBoth(h, b, str, v_new) == Rewrite(h, b, str, v_new, VStr(v_new))

(* Lines 193-201: a match at the start of the string.                      *)
AtStart(h, b, re_str, f, str, v) ==
  IF Looked(f) # "none" THEN Step(h, Looked(f), str, v)
  ELSE RewriteBoth(h, b, str,
                   Replace(IF IsStr(v) THEN v.s ELSE str, re_str, f.v.s))

(* Lines 181-201: one match.                                               *)
MatchStep(h, b, re_str, str, v) ==
  IF re_str[1] = "\\" THEN Unescape(h, b, re_str, str, v)
  ELSE IF re_str[1] # "$"
  THEN AfterLead(h, b, Tail(re_str),
                 find_value_to_expand(h, b, Tail(re_str)), str, v)
  ELSE AtStart(h, b, re_str, find_value_to_expand(h, b, re_str), str, v)

RECURSIVE ProcessMatches(_, _, _, _, _, _)
ProcessNext(s, ms, j, b) ==
  IF s.err # "none" THEN Raise(s.h, s.err)
  ELSE ProcessMatches(s.h, ms, j + 1, s.str, s.v, b)

ProcessMatches(h, ms, j, str, v, b) ==
  IF j > Len(ms) THEN Ok(h)
  ELSE ProcessNext(MatchStep(h, b, ms[j], str, v), ms, j, b)

find_and_process_re(h, str, v, b) ==
  ProcessMatches(h, finditer(str, 1), 1, str, v, b)

(* expand_variables(a, b, expanded, path) below the first call: walk the   *)
(* dict at address a, rewriting the tree rooted at address b.              *)
RECURSIVE ExpandItems(_, _, _, _)
RECURSIVE ExpandList(_, _, _, _)
(* Lines 217-220: an element e of the list v.                              *)
ExpandElem(h, e, v, b) ==
  IF IsDict(h, e) THEN ExpandItems(h, e.r, b, 1)
  ELSE IF IsStr(e) THEN find_and_process_re(h, e.s, v, b)
  ELSE Ok(h)

(* Lines 212-223: a value v of the dict.                                   *)
ExpandValue(h, v, b) ==
  IF IsDict(h, v) THEN ExpandItems(h, v.r, b, 1)
  ELSE IF IsList(h, v) THEN ExpandList(h, v, b, 1)
  ELSE IF IsStr(v) THEN find_and_process_re(h, v.s, v, b)
  ELSE Ok(h)

ExpandItemsNext(r, a, b, i) ==
  IF r.err # "none" THEN r ELSE ExpandItems(r.h, a, b, i + 1)

ExpandItems(h, a, b, i) ==
  IF i > Len(h[a].ks) THEN Ok(h)
  ELSE ExpandItemsNext(ExpandValue(h, h[a].vs[i], b), a, b, i)

ExpandListNext(r, v, b, x) ==
  IF r.err # "none" THEN r ELSE ExpandList(r.h, v, b, x + 1)

ExpandList(h, v, b, x) ==
  IF x > Len(h[v.r].vs) THEN Ok(h)
  ELSE ExpandListNext(ExpandElem(h, h[v.r].vs[x], v, b), v, b, x)

(* expand_variables(a, {}, []): b = a.copy() is a new dict holding the     *)
(* same values, so nested objects are shared between a and b.  The result  *)
(* is [h, err, b].                                                         *)
Expanded(r, b) == [h |-> r.h, err |-> r.err, b |-> b]

expand_variables(h, a) ==
  Expanded(ExpandItems(Append(h, h[a]), a, Len(h) + 1, 1), Len(h) + 1)

-----------------------------------------------------------------------------
(* The storage the engine reads: a node id, the node's document and the    *)
(* class documents.  A document is a tree; NoFile marks an absent file and *)
(* TNone an empty one (the YAML loader returns None for it).               *)

NoFile == [t |-> "nofile", s |-> <<>>, ks |-> <<>>, vs |-> <<>>]

K(c) == <<c>>
KClasses == K("classes")
KPillars == K("pillars")
KStates == K("states")
KEnvironment == K("environment")

(* Bounds of the model.                                                    *)
MaxInclude == 1
MaxNodeClasses == 2

ClassNames == {K("A"), K("B"), K("C")}
NodeIds == {K("n"), K("A")}

(* Class lists without repetition, up to a length.                         *)
ListsUpTo(n) ==
  UNION {{q \in [1..l -> ClassNames] : \A i, j \in 1..l : i # j => q[i] # q[j]}
         : l \in 0..n}

NameList(q) == TList([i \in 1..Len(q) |-> TStr(q[i])])

(* The pillars a document may declare.  `who` is the document's name and  *)
(* the scalar it sets, so that the winner of a merge can be told.  A        *)
(* document sets the top-level scalar k and the nested scalar m.k, or the   *)
(* list l, with or without the sentinel "^" in front.                       *)
PillarKinds == {"scalars", "list", "caret"}

PillarsOf(kind, who) ==
  CASE kind = "scalars" ->
         TDict(<<K("k"), K("m")>>,
               <<TStr(who), TDict(<<K("k")>>, <<TStr(who)>>)>>)
    [] kind = "list" -> TDict(<<K("l")>>, <<TList(<<TStr(who)>>)>>)
    [] kind = "caret" ->
         TDict(<<K("l")>>, <<TList(<<TStr(K("^")), TStr(who)>>)>>)

(* A document with an optional classes list and optional pillars.          *)
Doc(hasClasses, q, hasPillars, pillars) ==
  TDict((IF hasClasses THEN <<KClasses>> ELSE <<>>)
          \o (IF hasPillars THEN <<KPillars>> ELSE <<>>),
        (IF hasClasses THEN <<NameList(q)>> ELSE <<>>)
          \o (IF hasPillars THEN <<pillars>> ELSE <<>>))

(* The documents a class file may hold: with or without a classes list     *)
(* (of one to n names), with or without pillars.                           *)
ClassDocs(who, kinds, n) ==
  {Doc(Len(q) > 0, q, FALSE, TEmpty) : q \in ListsUpTo(n)}
    \cup {Doc(Len(q) > 0, q, TRUE, PillarsOf(kind, who)) :
            q \in ListsUpTo(n), kind \in kinds}

(* The node's document: no file, an empty file, an empty mapping, or a     *)
(* classes list with or without pillars.                                   *)
NodeDocs(kinds) ==
  {NoFile, TNone, TEmpty}
    \cup {Doc(TRUE, q, FALSE, TEmpty) : q \in ListsUpTo(MaxNodeClasses)}
    \cup {Doc(TRUE, q, TRUE, PillarsOf(kind, K("node"))) :
            q \in ListsUpTo(MaxNodeClasses), kind \in kinds}

(* Storage over three classes, given the documents each may hold.         *)
StoragesOf(ids, kinds, docsA, docsB, docsC) ==
  {[minion_id |-> id, node |-> nd,
    files |-> (K("A") :> a) @@ (K("B") :> b) @@ (K("C") :> c)] :
     id \in ids, nd \in NodeDocs(kinds),
     a \in docsA, b \in docsB, c \in docsC}

(* Scalar pillars over three classes, of which C includes nothing; list    *)
(* pillars over two, of which B includes nothing, the third being named    *)
(* but absent from storage.                                                *)
Storages ==
  StoragesOf(NodeIds, {"scalars"},
             ClassDocs(K("A"), {"scalars"}, MaxInclude),
             ClassDocs(K("B"), {"scalars"}, MaxInclude),
             ClassDocs(K("C"), {"scalars"}, 0))
    \cup StoragesOf({K("n")}, {"list", "caret"},
                    ClassDocs(K("A"), {"list", "caret"}, MaxInclude),
                    ClassDocs(K("B"), {"list", "caret"}, 0),
                    {NoFile})

(* Storage for the states list and the environment.  A document may list   *)
(* states (none, or two of which one is shared with another document),     *)
(* name an environment and hold pillars.                                   *)
StatesOf(who) ==
  CASE who = K("A") -> <<K("s1"), K("s2")>>
    [] who = K("B") -> <<K("s2"), K("s3")>>
    [] OTHER -> <<K("s4"), K("s1")>>

EnvOf(who) == TStr(K("e") \o who)

TopsKinds ==
  {"plain", "states", "pillars_states", "pillars_nostates", "env",
   "pillars_states_env"}

TopsDoc(who, q, kind) ==
  LET hasClasses == Len(q) > 0
      hasPillars == kind \in {"pillars_states", "pillars_nostates",
                              "pillars_states_env"}
      hasStates == kind \in {"states", "pillars_states", "pillars_nostates",
                             "pillars_states_env"}
      hasEnv == kind \in {"env", "pillars_states_env"}
  IN TDict((IF hasClasses THEN <<KClasses>> ELSE <<>>)
             \o (IF hasPillars THEN <<KPillars>> ELSE <<>>)
             \o (IF hasStates THEN <<KStates>> ELSE <<>>)
             \o (IF hasEnv THEN <<KEnvironment>> ELSE <<>>),
           (IF hasClasses THEN <<NameList(q)>> ELSE <<>>)
             \o (IF hasPillars THEN <<PillarsOf("scalars", who)>> ELSE <<>>)
             \o (IF hasStates
                 THEN <<IF kind = "pillars_nostates" THEN TList(<<>>)
                        ELSE NameList(StatesOf(who))>>
                 ELSE <<>>)
             \o (IF hasEnv THEN <<EnvOf(who)>> ELSE <<>>))

(* Two classes, each including the other or nothing; the node names A, or  *)
(* A and B, or has no file.                                                *)
TopsStorages ==
  {[minion_id |-> id, node |-> nd,
    files |-> (K("A") :> a) @@ (K("B") :> b) @@ (K("C") :> NoFile)] :
     id \in NodeIds,
     nd \in {NoFile}
              \cup {TopsDoc(K("node"), q, kind) :
                      q \in {<<K("A")>>, <<K("A"), K("B")>>}, kind \in TopsKinds},
     a \in {TopsDoc(K("A"), q, kind) : q \in {<<>>, <<K("B")>>}, kind \in TopsKinds},
     b \in {TopsDoc(K("B"), q, kind) : q \in {<<>>, <<K("A")>>}, kind \in TopsKinds}}

(* The storage of the documented example: the node includes A and L, A     *)
(* includes B, B includes C, L includes M and B.  Every document comes     *)
(* with or without pillars.                                                *)
OrderClasses == {K("A"), K("B"), K("C"), K("L"), K("M")}

OrderIncludes(c) ==
  CASE c = K("A") -> <<K("B")>>
    [] c = K("B") -> <<K("C")>>
    [] c = K("L") -> <<K("M"), K("B")>>
    [] OTHER -> <<>>

OrderDoc(who, q, hasPillars) ==
  Doc(Len(q) > 0, q, hasPillars, PillarsOf("scalars", who))

OrderStorages ==
  {[minion_id |-> K("n"),
    node |-> OrderDoc(K("node"), <<K("A"), K("L")>>, pn),
    files |-> (K("A") :> OrderDoc(K("A"), OrderIncludes(K("A")), pa))
                @@ (K("B") :> OrderDoc(K("B"), OrderIncludes(K("B")), pb))
                @@ (K("C") :> OrderDoc(K("C"), OrderIncludes(K("C")), pcl))
                @@ (K("L") :> OrderDoc(K("L"), OrderIncludes(K("L")), pl))
                @@ (K("M") :> OrderDoc(K("M"), OrderIncludes(K("M")), pm))] :
     pn \in BOOLEAN, pa \in BOOLEAN, pb \in BOOLEAN, pcl \in BOOLEAN,
     pl \in BOOLEAN, pm \in BOOLEAN}

-----------------------------------------------------------------------------
(* The state of one resolve call.                                          *)

VARIABLES
  storage,          \* the files on disk; never written
  pc,               \* where the call is
  heap,             \* the objects
  pillar,           \* address of salt_data["__pillar__"]
  node,             \* node_dict[minion_id]
  seen,             \* seen_classes
  stack,            \* the frames of expand_classes_in_order, innermost last
  expanded_classes, \* what the outermost expand_classes_in_order returned
  composed,         \* what expanded_dict_from_minion returned
  result,           \* what get_pillars or get_tops returned, as a tree
  err,              \* the exception raised, "none" when none
  loads             \* one record per get_class call, in order

vars == <<storage, pc, heap, pillar, node, seen, stack, expanded_classes,
          composed, result, err, loads>>

(* OrderedDict, as a sequence of [k, v] entries.                           *)
OdIndex(od, k) ==
  IF \E i \in 1..Len(od) : od[i].k = k
  THEN CHOOSE i \in 1..Len(od) : od[i].k = k
  ELSE 0

OdSet(od, k, v) ==
  IF OdIndex(od, k) # 0
  THEN [od EXCEPT ![OdIndex(od, k)].v = v]
  ELSE Append(od, [k |-> k, v |-> v])

RECURSIVE OdUpdateFrom(_, _, _)
OdUpdateFrom(od, other, i) ==
  IF i > Len(other) THEN od
  ELSE OdUpdateFrom(OdSet(od, other[i].k, other[i].v), other, i + 1)

OdUpdate(od, other) == OdUpdateFrom(od, other, 1)

OdMoveToEnd(od, k) ==
  LET i == OdIndex(od, k)
  IN SubSeq(od, 1, i - 1) \o SubSeq(od, i + 1, Len(od)) \o <<od[i]>>

OdKeys(od) == [i \in 1..Len(od) |-> od[i].k]
OdValues(od) == [i \in 1..Len(od) |-> od[i].v]

(* Keep the first occurrence of each element.                              *)
RECURSIVE Dedup(_, _, _)
Dedup(q, i, acc) ==
  IF i > Len(q) THEN acc
  ELSE Dedup(q, i + 1,
             IF \E j \in 1..Len(acc) : acc[j] = q[i] THEN acc
             ELSE Append(acc, q[i]))

RECURSIVE Flatten(_)
Flatten(qs) == IF Len(qs) = 0 THEN <<>> ELSE Head(qs) \o Flatten(Tail(qs))

HasFile(files, c) == c \in DOMAIN files /\ files[c] # NoFile

(* match_class_glob for a name without wildcards: the flat and the         *)
(* path-segmented candidate are the same file for an undotted name, so an  *)
(* existing class matches twice; a class without a file matches nothing.   *)
match_class_glob(files, c) == IF HasFile(files, c) THEN <<c, c>> ELSE <<>>

expand_classes_glob(files, classes) ==
  Dedup(Flatten([i \in 1..Len(classes) |-> match_class_glob(files, classes[i])]),
        1, <<>>)

(* get_class: the rendered document as fresh objects, {} when no file.    *)
get_class(h, files, c) ==
  IF HasFile(files, c) THEN AllocTree(h, files[c]) ELSE AllocTree(h, TEmpty)

(* The names held by a list of strings.                                    *)
Names(h, l) == [i \in 1..Len(h[l.r].vs) |-> h[l.r].vs[i].s]

(* dict.get(k, {}) for reading only.                                       *)
Truthy(h, v) == IsRef(v) /\ Len(h[v.r].vs) > 0

(* Entry of expand_classes_in_order, lines 301-307.                        *)
NewFrame(h, files, minion_dict, classes_to_expand) ==
  [minion_dict |-> minion_dict,
   todo |-> expand_classes_glob(files,
              IF Len(classes_to_expand) = 0 /\ HasKey(h[minion_dict.r], KClasses)
              THEN Names(h, Item(h[minion_dict.r], KClasses))
              ELSE classes_to_expand),
   idx |-> 1,
   expanded |-> <<>>,
   klass |-> <<>>,
   klass_dict |-> <<>>,
   at |-> "loop"]

Top == stack[Len(stack)]
SetTop(f) == [stack EXCEPT ![Len(stack)] = f]

(* The classes whose nested lists are being expanded, outermost first.     *)
Chain == [i \in 1..(Len(stack) - 1) |-> stack[i].klass]

Init ==
  /\ storage \in Storages
  /\ pc = "start"
  /\ heap = <<DictObj(<<>>, <<>>)>>
  /\ pillar = 1
  /\ node = VNone
  /\ seen = <<>>
  /\ stack = <<>>
  /\ expanded_classes = <<>>
  /\ composed = <<>>
  /\ result = TNone
  /\ err = "none"
  /\ loads = <<>>

(* A loader without lines 361-363: a node without a file has no entry in   *)
(* node_dict, and reading it raises.                                       *)
LoadNodeOrRaise ==
  /\ pc = "start"
  /\ IF storage.node = NoFile
     THEN /\ pc' = "raised"
          /\ err' = "KeyError"
          /\ UNCHANGED <<heap, node>>
     ELSE /\ heap' = AllocTree(heap, storage.node).h
          /\ node' = AllocTree(heap, storage.node).v
          /\ pc' = "merge_node"
          /\ err' = err
  /\ UNCHANGED <<storage, pillar, seen, stack, expanded_classes, composed,
                 result, loads>>

(* expanded_dict_from_minion, lines 347-363: find and render the node's    *)
(* file.                                                                   *)
LoadNode ==
  /\ pc = "start"
  /\ LET n == IF storage.node = NoFile THEN AllocTree(heap, TEmpty)
              ELSE AllocTree(heap, storage.node)
     IN /\ heap' = n.h
        /\ node' = n.v
  /\ pc' = "merge_node"
  /\ UNCHANGED <<storage, pillar, seen, stack, expanded_classes, composed,
                 result, err, loads>>

(* Lines 365-373: merge a deep copy of the node's pillars into the live    *)
(* accumulator, then call expand_classes_in_order(node, salt_data, [], []).*)
MergeNodePillars ==
  /\ pc = "merge_node"
  /\ IF ~IsRef(node)
     THEN /\ pc' = "raised"
          /\ err' = "AttributeError"
          /\ UNCHANGED <<heap, stack>>
     ELSE LET c == DeepCopy(heap, node)
              p == IF HasKey(c.h[c.v.r], KPillars)
                   THEN [h |-> c.h, v |-> Item(c.h[c.v.r], KPillars)]
                   ELSE AllocTree(c.h, TEmpty)
              m == dict_merge(p.h, pillar, p.v.r)
          IN /\ heap' = m.h
             /\ err' = m.err
             /\ IF m.err # "none"
                THEN pc' = "raised" /\ stack' = stack
                ELSE /\ pc' = "expand"
                     /\ stack' = <<NewFrame(m.h, storage.files, node, <<>>)>>
  /\ UNCHANGED <<storage, pillar, node, seen, expanded_classes, composed,
                 result, loads>>

(* A loader without lines 320-323: a class's pillars are not merged when   *)
(* it is loaded.                                                           *)
SkipNewPillars(h, acc, doc) == Ok(h)

(* Lines 320-323: merge the class's pillars into the live accumulator.     *)
MergeNewPillars(h, acc, doc) ==
  IF HasKey(h[doc.r], KPillars) /\ Truthy(h, Item(h[doc.r], KPillars))
  THEN dict_merge(h, acc, Item(h[doc.r], KPillars).r)
  ELSE Ok(h)

(* Lines 310-323, for a class seen before: nothing happens.                *)
SkipSeen ==
  /\ pc = "expand"
  /\ Top.at = "loop"
  /\ Top.idx <= Len(Top.todo)
  /\ \E i \in 1..Len(seen) : seen[i] = Top.todo[Top.idx]
  /\ stack' = SetTop([Top EXCEPT !.idx = @ + 1])
  /\ UNCHANGED <<storage, pc, heap, pillar, node, seen, expanded_classes,
                 composed, result, err, loads>>

(* Lines 310-323, for a new class: mark it seen, load and render its       *)
(* document (the template sees the accumulator as it is now), merge its    *)
(* pillars into the accumulator.                                           *)
LoadClass ==
  /\ pc = "expand"
  /\ Top.at = "loop"
  /\ Top.idx <= Len(Top.todo)
  /\ \A i \in 1..Len(seen) : seen[i] # Top.todo[Top.idx]
  /\ LET klass == Top.todo[Top.idx]
         g == get_class(heap, storage.files, klass)
         d == IF IsRef(g.v) THEN g ELSE AllocTree(g.h, TEmpty)
         m == MergeNewPillars(d.h, pillar, d.v)
     IN /\ seen' = Append(seen, klass)
        /\ loads' = Append(loads, [klass |-> klass, chain |-> Chain,
                                   view |-> Freeze(heap, VRef(pillar))])
        /\ heap' = m.h
        /\ err' = m.err
        /\ IF m.err # "none"
           THEN pc' = "raised" /\ stack' = stack
           ELSE /\ pc' = pc
                /\ stack' = SetTop([Top EXCEPT
                                      !.klass = klass,
                                      !.klass_dict = <<[k |-> klass, v |-> d.v]>>,
                                      !.at = "loaded"])
  /\ UNCHANGED <<storage, pillar, node, expanded_classes, composed, result>>

(* Lines 325-331: the class names nested classes; call                     *)
(* expand_classes_in_order({}, salt_data, seen_classes, its list).         *)
Descend ==
  /\ pc = "expand"
  /\ Top.at = "loaded"
  /\ HasKey(heap[Top.klass_dict[1].v.r], KClasses)
  /\ LET e == AllocTree(heap, TEmpty)
         cl == Item(heap[Top.klass_dict[1].v.r], KClasses)
     IN /\ heap' = e.h
        /\ stack' = Append(SetTop([Top EXCEPT !.at = "nested"]),
                           NewFrame(e.h, storage.files, e.v, Names(e.h, cl)))
  /\ UNCHANGED <<storage, pc, pillar, node, seen, expanded_classes, composed,
                 result, err, loads>>

(* Line 337 for a class without nested classes.                            *)
Record ==
  /\ pc = "expand"
  /\ Top.at = "loaded"
  /\ ~HasKey(heap[Top.klass_dict[1].v.r], KClasses)
  /\ stack' = SetTop([Top EXCEPT !.expanded = OdUpdate(@, Top.klass_dict),
                                 !.idx = @ + 1,
                                 !.at = "loop"])
  /\ UNCHANGED <<storage, pc, heap, pillar, node, seen, expanded_classes,
                 composed, result, err, loads>>

(* Lines 339-343: the minion's document goes in under the minion id, if it *)
(* is not empty.                                                           *)
Returned(h, f, minion_id) ==
  IF Truthy(h, f.minion_dict)
  THEN OdSet(f.expanded, minion_id, f.minion_dict)
  ELSE f.expanded

(* Lines 333-337 without move_to_end: the current class stays in front of  *)
(* its nested classes.                                                     *)
AfterNestedUnmoved(caller, nested_classes) ==
  [caller EXCEPT !.klass_dict = OdUpdate(caller.klass_dict, nested_classes),
                 !.expanded = OdUpdate(@, OdUpdate(caller.klass_dict,
                                                   nested_classes)),
                 !.idx = @ + 1,
                 !.at = "loop"]

(* Lines 333-337 in the caller: the current class goes after its nested    *)
(* classes.                                                                *)
AfterNested(caller, nested_classes) ==
  LET kd == OdMoveToEnd(OdUpdate(caller.klass_dict, nested_classes), caller.klass)
  IN [caller EXCEPT !.klass_dict = kd,
                    !.expanded = OdUpdate(@, kd),
                    !.idx = @ + 1,
                    !.at = "loop"]

ReturnNested ==
  /\ pc = "expand"
  /\ Len(stack) > 1
  /\ Top.at = "loop"
  /\ Top.idx > Len(Top.todo)
  /\ stack' = Append(SubSeq(stack, 1, Len(stack) - 2),
                     AfterNested(stack[Len(stack) - 1],
                                 Returned(heap, Top, storage.minion_id)))
  /\ UNCHANGED <<storage, pc, heap, pillar, node, seen, expanded_classes,
                 composed, result, err, loads>>

ReturnTop ==
  /\ pc = "expand"
  /\ Len(stack) = 1
  /\ Top.at = "loop"
  /\ Top.idx > Len(Top.todo)
  /\ expanded_classes' = Returned(heap, Top, storage.minion_id)
  /\ stack' = <<>>
  /\ pc' = "compose"
  /\ UNCHANGED <<storage, heap, pillar, node, seen, composed, result, err,
                 loads>>

(* expanded_dict_from_minion, lines 375-394.                               *)
(* The loop of lines 380-384 from document i on: [h, err, states].         *)
RECURSIVE MergeDocs(_, _, _, _, _)
MergeDocs(h, pillars_dict, classes_values, i, states_list) ==
  IF i > Len(classes_values) THEN [h |-> h, err |-> "none", states |-> states_list]
  ELSE
    LET exp_dict == classes_values[i].r
        m == IF HasKey(h[exp_dict], KPillars)
             THEN dict_merge(h, pillars_dict, exp_dict)
             ELSE Ok(h)
    IN IF m.err # "none" THEN [h |-> m.h, err |-> m.err, states |-> states_list]
       ELSE MergeDocs(m.h, pillars_dict, classes_values, i + 1,
                      IF HasKey(m.h[exp_dict], KStates)
                      THEN states_list \o m.h[Item(m.h[exp_dict], KStates).r].vs
                      ELSE states_list)

(* list(expanded_classes.keys())[:-1]                                      *)
AllButLast(q) == SubSeq(q, 1, Len(q) - 1)

Compose ==
  /\ pc = "compose"
  /\ LET pillars_dict == Len(heap) + 1
         m == MergeDocs(Append(heap, DictObj(<<>>, <<>>)), pillars_dict,
                        OdValues(expanded_classes), 1, <<>>)
     IN /\ heap' = m.h
        /\ err' = m.err
        /\ IF m.err # "none"
           THEN pc' = "raised" /\ composed' = composed
           ELSE /\ pc' = "finish"
                /\ composed' = [classes_values |-> OdValues(expanded_classes),
                                pillars_dict |-> pillars_dict,
                                classes_list |-> AllButLast(OdKeys(expanded_classes)),
                                states_list |-> Dedup(m.states, 1, <<>>)]
  /\ UNCHANGED <<storage, pillar, node, seen, stack, expanded_classes, result,
                 loads>>

(* get_env_from_dict: the last document declaring an environment wins.     *)
RECURSIVE get_env_from_dict(_, _, _, _)
get_env_from_dict(h, exp_dict_list, i, environment) ==
  IF i > Len(exp_dict_list) THEN environment
  ELSE get_env_from_dict(h, exp_dict_list, i + 1,
         IF HasKey(h[exp_dict_list[i].r], KEnvironment)
         THEN Item(h[exp_dict_list[i].r], KEnvironment)
         ELSE environment)

(* dict.update on trees.                                                   *)
RECURSIVE TUpdate(_, _, _)
TUpdate(t, u, i) ==
  IF i > Len(u.ks) THEN t
  ELSE TUpdate(IF KeyIndex(t.ks, u.ks[i]) # 0
               THEN [t EXCEPT !.vs[KeyIndex(t.ks, u.ks[i])] = u.vs[i]]
               ELSE [t EXCEPT !.ks = Append(@, u.ks[i]), !.vs = Append(@, u.vs[i])],
               u, i + 1)

KSaltclass == K("__saltclass__")

(* Lines 420-427: the metadata block.                                      *)
Saltclass(h, c, environment, minion_id) ==
  TDict(<<KStates, KClasses, KEnvironment, K("nodename")>>,
        <<TList([i \in 1..Len(c.states_list) |-> Freeze(h, c.states_list[i])]),
          NameList(c.classes_list),
          Freeze(h, environment),
          TStr(minion_id)>>)

(* get_pillars, lines 410-429.                                             *)
Finish ==
  /\ pc = "finish"
  /\ LET environment == get_env_from_dict(heap, composed.classes_values, 1, VStr(<<>>))
         top == heap[composed.pillars_dict]
         e == IF HasKey(top, KPillars)
              THEN IF IsDict(heap, Item(top, KPillars))
                   THEN expand_variables(heap, Item(top, KPillars).r)
                   ELSE [h |-> heap, err |-> "AttributeError", b |-> 0]
              ELSE expand_variables(Append(heap, DictObj(<<>>, <<>>)), Len(heap) + 1)
     IN /\ heap' = e.h
        /\ err' = e.err
        /\ IF e.err # "none"
           THEN pc' = "raised" /\ result' = result
           ELSE /\ pc' = "done"
                /\ result' = TUpdate(
                     TDict(<<KSaltclass>>,
                           <<Saltclass(e.h, composed, environment, storage.minion_id)>>),
                     Freeze(e.h, VRef(e.b)), 1)
  /\ UNCHANGED <<storage, pillar, node, seen, stack, expanded_classes, composed,
                 loads>>

(* get_tops, lines 445-452: the call was get_tops; the environment maps to *)
(* the states list.                                                        *)
Tops ==
  /\ pc = "finish"
  /\ LET environment == get_env_from_dict(heap, composed.classes_values, 1, VStr(<<>>))
     IN result' = TDict(<<environment.s>>,
                        <<TList([i \in 1..Len(composed.states_list) |->
                                   Freeze(heap, composed.states_list[i])])>>)
  /\ pc' = "topped"
  /\ UNCHANGED <<storage, heap, pillar, node, seen, stack, expanded_classes,
                 composed, err, loads>>

Next ==
  \/ LoadNode
  \/ MergeNodePillars
  \/ SkipSeen
  \/ LoadClass
  \/ Descend
  \/ Record
  \/ ReturnNested
  \/ ReturnTop
  \/ Compose
  \/ Finish
  \/ Tops

Spec == Init /\ [][Next]_vars

(* A call that has not started yet.                                        *)
Entered ==
  /\ pc = "start"
  /\ heap = <<DictObj(<<>>, <<>>)>>
  /\ pillar = 1
  /\ node = VNone
  /\ seen = <<>>
  /\ stack = <<>>
  /\ expanded_classes = <<>>
  /\ composed = <<>>
  /\ result = TNone
  /\ err = "none"
  /\ loads = <<>>

(* The calls over the storage with states and environments.                *)
InitTops == storage \in TopsStorages /\ Entered

SpecTops == InitTops /\ [][Next]_vars

(* The calls over the storage of the documented example.                   *)
InitOrder == storage \in OrderStorages /\ Entered

SpecOrder == InitOrder /\ [][Next]_vars

-----------------------------------------------------------------------------
(* dict_merge called on its own: a pair of trees a, b is drawn, built as   *)
(* fresh objects and merged; result is what a and b hold afterwards.       *)

MaxList == 2

(* Lists of up to n elements, each the sentinel or the element e.          *)
ListsOf(e, n) ==
  UNION {[1..l -> {TStr(K("^")), TStr(K(e))}] : l \in 0..n}

(* A tree without the key x, or with x holding a list, a scalar or a       *)
(* mapping with a list below.                                              *)
MergeTrees(e) ==
  {TEmpty}
    \cup {TDict(<<K("x")>>, <<TList(q)>>) : q \in ListsOf(e, MaxList)}
    \cup {TDict(<<K("x")>>, <<TStr(K("s"))>>)}
    \cup {TDict(<<K("x")>>, <<TDict(<<K("x")>>, <<TList(q)>>)>>) :
            q \in ListsOf(e, 1)}

MergePairs == {[a |-> a, b |-> b] : a \in MergeTrees("p"), b \in MergeTrees("q")}

InitMerge ==
  /\ storage \in MergePairs
  /\ pc = "merge"
  /\ heap = <<>>
  /\ pillar = 0
  /\ node = VNone
  /\ seen = <<>>
  /\ stack = <<>>
  /\ expanded_classes = <<>>
  /\ composed = <<>>
  /\ result = TNone
  /\ err = "none"
  /\ loads = <<>>

(* dict_merge(a, b) on a built at a and b built at b: [h, err, a, b].      *)
Merged(m, a, b) ==
  [h |-> m.h, err |-> m.err, a |-> Freeze(m.h, a), b |-> Freeze(m.h, b)]

MergeBuilt(a, b) == Merged(dict_merge(b.h, a.v.r, b.v.r), a.v, b.v)

MergeOnto(a, tb) == MergeBuilt(a, AllocTree(a.h, tb))

MergeTreesOf(ta, tb) == MergeOnto(AllocTree(<<>>, ta), tb)

Merge ==
  /\ pc = "merge"
  /\ LET m == MergeTreesOf(storage.a, storage.b)
     IN /\ heap' = m.h
        /\ err' = m.err
        /\ result' = [a |-> m.a, b |-> m.b]
        /\ pc' = IF m.err # "none" THEN "raised" ELSE "merged"
  /\ UNCHANGED <<storage, pillar, node, seen, stack, expanded_classes,
                 composed, loads>>

NextMerge == Merge

SpecMerge == InitMerge /\ [][NextMerge]_vars

-----------------------------------------------------------------------------
(* expand_variables called on its own.  The tree holds a few values to     *)
(* refer to and one string under test, made of up to MaxParts parts: plain *)
(* text, a token, an escaped token.  The string sits at a top-level key,   *)
(* at a key of a nested mapping or in a list, alone or beside a second     *)
(* copy of itself in the same container.                                   *)

MaxParts == 2

RECURSIVE JoinPath(_)
JoinPath(path) ==
  IF Len(path) = 1 THEN path[1]
  ELSE path[1] \o <<":">> \o JoinPath(Tail(path))

Tok(path) == <<"$", "{">> \o JoinPath(path) \o <<"}">>

Text(s) == [kind |-> "text", text |-> s, path |-> <<>>]
Token(path) == [kind |-> "token", text |-> Tok(path), path |-> path]
Escaped(path) == [kind |-> "escaped", text |-> <<"\\">> \o Tok(path), path |-> path]

Kk2 == <<"k", "2">>

PartSet ==
  {Text(K("x")), Text(K("-")),
   Token(<<K("a")>>), Token(<<K("b")>>), Token(<<K("m"), K("k")>>),
   Token(<<K("q")>>), Token(<<K("m"), K("q")>>), Token(<<K("n"), K("k")>>),
   Token(<<K("s"), K("b")>>), Token(<<K("l"), K("b")>>),
   Token(<<K("z"), K("k")>>),
   Escaped(<<K("a")>>), Escaped(<<K("q")>>),
   Token(<<Kk2>>)}

VarCases ==
  {[parts |-> ps, at |-> at, twin |-> tw] :
     ps \in UNION {[1..l -> PartSet] : l \in 1..MaxParts},
     at \in {"top", "nested", "list"},
     tw \in BOOLEAN}

RECURSIVE Concat(_)
Concat(ss) == IF Len(ss) = 0 THEN <<>> ELSE Head(ss) \o Concat(Tail(ss))

InputString(c) == Concat([i \in 1..Len(c.parts) |-> c.parts[i].text])

(* One copy of the string, or two.                                         *)
Copies(c, one, two) == IF c.twin THEN two ELSE one

(* The container of the string under test.                                 *)
Holder(c) ==
  LET str == TStr(InputString(c))
  IN CASE c.at = "top" ->
            TDict(Copies(c, <<K("c")>>, <<K("c"), K("t")>>),
                  Copies(c, <<str>>, <<str, str>>))
       [] c.at = "nested" ->
            TDict(<<K("d")>>,
                  <<TDict(Copies(c, <<K("c")>>, <<K("c"), K("t")>>),
                          Copies(c, <<str>>, <<str, str>>))>>)
       [] c.at = "list" ->
            TDict(<<K("e")>>, <<TList(Copies(c, <<str>>, <<str, str>>))>>)

(* The tree: values to refer to, the string under test, and last a key k2  *)
(* whose own value is a token.                                             *)
VarsTree(c) ==
  TDict(<<K("a"), K("b"), K("m"), K("n"), K("s"), K("l"), K("z")>>
          \o Holder(c).ks \o <<Kk2>>,
        <<TStr(K("v")), TStr(K("w")), TDict(<<K("k")>>, <<TStr(K("u"))>>),
          TInt(K("1")), TStr(<<"x", "b", "x">>), TList(<<TStr(K("b"))>>),
          TNone>>
          \o Holder(c).vs \o <<TStr(Tok(<<K("a")>>))>>)

InitVars ==
  /\ storage \in VarCases
  /\ pc = "vars"
  /\ heap = <<>>
  /\ pillar = 0
  /\ node = VNone
  /\ seen = <<>>
  /\ stack = <<>>
  /\ expanded_classes = <<>>
  /\ composed = <<>>
  /\ result = TNone
  /\ err = "none"
  /\ loads = <<>>

(* expand_variables(t, {}, []) on the tree t built as fresh objects:       *)
(* [h, err, t], t being the returned tree when nothing was raised.         *)
ReturnedTree(e) ==
  [h |-> e.h, err |-> e.err,
   t |-> IF e.err = "none" THEN Freeze(e.h, VRef(e.b)) ELSE TNone]

ExpandBuilt(a) == ReturnedTree(expand_variables(a.h, a.v.r))

ExpandTree(t) == ExpandBuilt(AllocTree(<<>>, t))

Expand ==
  /\ pc = "vars"
  /\ LET e == ExpandTree(VarsTree(storage))
     IN /\ heap' = e.h
        /\ err' = e.err
        /\ result' = e.t
        /\ pc' = IF e.err # "none" THEN "raised" ELSE "expanded"
  /\ UNCHANGED <<storage, pillar, node, seen, stack, expanded_classes,
                 composed, loads>>

NextVars == Expand

SpecVars == InitVars /\ [][NextVars]_vars

-----------------------------------------------------------------------------
(* What the properties below read off the storage and the results.         *)

(* The value at a key path of a tree, NoFile when the path cannot be       *)
(* descended.                                                              *)
RECURSIVE TAt(_, _)
TAt(t, path) ==
  IF Len(path) = 0 THEN t
  ELSE IF THas(t, Head(path)) THEN TAt(TItem(t, Head(path)), Tail(path))
  ELSE NoFile

IsScalar(t) == t.t \in {"str", "int"}

PillarsIn(doc) == TGet(doc, KPillars, TEmpty)

(* The names in a document's classes list.                                 *)
Included(doc) ==
  IF THas(doc, KClasses)
  THEN {TItem(doc, KClasses).vs[i].s : i \in 1..Len(TItem(doc, KClasses).vs)}
  ELSE {}

LoadedClasses == {loads[i].klass : i \in 1..Len(loads)}

(* The key paths the documents of the storage set to scalars.              *)
ScalarPaths == {<<K("k")>>, <<K("m"), K("k")>>}

Existing(S) == {c \in S : HasFile(storage.files, c)}

RECURSIVE Closure(_, _)
Closure(S, n) ==
  IF n = 0 THEN S
  ELSE Closure(S \cup UNION {Existing(Included(storage.files[c])) : c \in S},
               n - 1)

(* The classes the node includes, directly or through other classes.       *)
ReachableClasses ==
  Closure(Existing(Included(storage.node)), Cardinality(ClassNames))

Occurrences(q, x) == Cardinality({i \in 1..Len(q) : q[i] = x})

(* C1: node precedence.  When the call has returned, every key path that   *)
(* the node's pillars set to a scalar and some loaded class sets to a      *)
(* different scalar holds the node's value in the returned tree.           *)
C1_NodePrecedence ==
  pc = "done" =>
    \A path \in ScalarPaths :
      (/\ IsScalar(TAt(PillarsIn(storage.node), path))
       /\ \E c \in LoadedClasses :
            /\ IsScalar(TAt(PillarsIn(storage.files[c]), path))
            /\ TAt(PillarsIn(storage.files[c]), path)
                 # TAt(PillarsIn(storage.node), path))
      => TAt(result, path) = TAt(PillarsIn(storage.node), path)

(* C2: parent over child.  When the call has returned, for loaded classes  *)
(* P and C where P's classes list names C (and C's does not name P), every *)
(* key path, top-level or nested, that both set to scalars and neither the *)
(* node nor any other loaded class sets holds P's value in the returned    *)
(* tree.  No class is named like the node.                                 *)
C2_ParentOverChild ==
  (pc = "done" /\ storage.minion_id \notin LoadedClasses) =>
    \A P \in LoadedClasses, C \in LoadedClasses, path \in ScalarPaths :
      (/\ P # C
       /\ C \in Included(storage.files[P])
       /\ P \notin Included(storage.files[C])
       /\ IsScalar(TAt(PillarsIn(storage.files[P]), path))
       /\ IsScalar(TAt(PillarsIn(storage.files[C]), path))
       /\ TAt(PillarsIn(storage.node), path) = NoFile
       /\ \A D \in LoadedClasses \ {P, C} :
            TAt(PillarsIn(storage.files[D]), path) = NoFile)
      => TAt(result, path) = TAt(PillarsIn(storage.files[P]), path)

(* C3: cycle tolerance.  No class is loaded twice, and when the call has   *)
(* returned every class the node reaches, cycles included, is in the       *)
(* classes list exactly once.                                              *)
C3_CycleTolerance ==
  /\ \A i, j \in 1..Len(loads) : loads[i].klass = loads[j].klass => i = j
  /\ pc = "done" =>
       \A c \in ReachableClasses : Occurrences(composed.classes_list, c) = 1

(* C4: the list rule of the merge.  For a key that a and b both hold with  *)
(* lists, b's list empty or not, dict_merge(a, b) raises nothing and a's   *)
(* list becomes a's old list followed by b's, or b's list without the      *)
(* sentinel when b's list starts with the sentinel.                        *)
C4_MergeListRule ==
  (/\ pc \in {"merged", "raised"}
   /\ TAt(storage.a, <<K("x")>>).t = "list"
   /\ TAt(storage.b, <<K("x")>>).t = "list")
  => /\ err = "none"
     /\ TAt(result.a, <<K("x")>>) =
          IF /\ Len(TAt(storage.b, <<K("x")>>).vs) > 0
             /\ TAt(storage.b, <<K("x")>>).vs[1] = TStr(K("^"))
          THEN TList(Tail(TAt(storage.b, <<K("x")>>).vs))
          ELSE TList(TAt(storage.a, <<K("x")>>).vs
                       \o TAt(storage.b, <<K("x")>>).vs)

(* The top-level keys of a tree, and under each mapping its keys.          *)
KeyPaths(t) ==
  {<<t.ks[i]>> : i \in 1..Len(t.ks)}
    \cup UNION {{<<t.ks[i], t.vs[i].ks[j]>> : j \in 1..Len(t.vs[i].ks)} :
                  i \in {i \in 1..Len(t.ks) : t.vs[i].t = "dict"}}

(* The documents above a load: the node's and those of the classes on the  *)
(* inclusion chain down to the class loaded.                               *)
Above(l) ==
  {storage.node} \cup {storage.files[l.chain[j]] : j \in 1..Len(l.chain)}

(* Load i is that of the first nested class of the class loaded just       *)
(* before it.                                                              *)
FirstNested(i) ==
  /\ i > 1
  /\ Len(loads[i].chain) > 0
  /\ loads[i].chain[Len(loads[i].chain)] = loads[i - 1].klass

(* C5: render-time visibility is preorder.  Whenever a class is loaded,    *)
(* the live accumulator already holds every key set by the pillars of the  *)
(* node and of every class on the inclusion chain down to that class.  The *)
(* first class loaded sees exactly the node's pillars, and the first       *)
(* nested class of a class sees that class's scalars, top-level and        *)
(* nested, with that class's values.                                       *)
C5_PreorderVisibility ==
  \A i \in 1..Len(loads) :
    /\ \A d \in Above(loads[i]) :
         \A j \in 1..Len(PillarsIn(d).ks) : THas(loads[i].view, PillarsIn(d).ks[j])
    /\ i = 1 => loads[i].view = PillarsIn(storage.node)
    /\ FirstNested(i) =>
         \A path \in KeyPaths(PillarsIn(storage.files[loads[i - 1].klass])) :
           IsScalar(TAt(PillarsIn(storage.files[loads[i - 1].klass]), path))
             => TAt(loads[i].view, path)
                  = TAt(PillarsIn(storage.files[loads[i - 1].klass]), path)

(* A class two levels down is loaded right after the class that names it,  *)
(* and the node and both classes above it have pillars.                    *)
C5_Witness ==
  \E i \in 1..Len(loads) :
    /\ Len(loads[i].chain) = 2
    /\ FirstNested(i)
    /\ \A d \in Above(loads[i]) : Len(PillarsIn(d).ks) > 0

(* The node's document is not empty.                                       *)
NodeGiven == storage.node.t = "dict" /\ Len(storage.node.ks) > 0

(* C10: the classes list.  When expand_classes_in_order has returned for a *)
(* node whose document is not empty, the last entry of what it returned is *)
(* the node's document under the node id; and the classes list holds       *)
(* exactly the classes loaded, each once.                                  *)
C10_ClassesList ==
  /\ (pc \in {"compose", "finish", "done"} /\ NodeGiven) =>
       /\ Len(expanded_classes) > 0
       /\ expanded_classes[Len(expanded_classes)]
            = [k |-> storage.minion_id, v |-> node]
  /\ pc \in {"finish", "done"} =>
       /\ {composed.classes_list[i] : i \in 1..Len(composed.classes_list)}
            = LoadedClasses
       /\ \A c \in LoadedClasses : Occurrences(composed.classes_list, c) = 1

(* What a part stands for in the tree: text for itself, an escaped token   *)
(* for the token without the backslash, a token for the string its path    *)
(* leads to from the root, and for itself when the path leads to none.     *)
Ideal(p, tree) ==
  IF p.kind = "text" THEN p.text
  ELSE IF p.kind = "escaped" THEN Tail(p.text)
  ELSE IF TAt(tree, p.path).t = "str" THEN TAt(tree, p.path).s
  ELSE p.text

IdealString(c) ==
  Concat([i \in 1..Len(c.parts) |-> Ideal(c.parts[i], VarsTree(c))])

(* The string under test and its copy, in a tree returned.                 *)
Targets(c, t) ==
  CASE c.at = "top" ->
         {TAt(t, <<K("c")>>)} \cup Copies(c, {}, {TAt(t, <<K("t")>>)})
    [] c.at = "nested" ->
         {TAt(t, <<K("d"), K("c")>>)}
           \cup Copies(c, {}, {TAt(t, <<K("d"), K("t")>>)})
    [] c.at = "list" ->
         {TAt(t, <<K("e")>>).vs[i] : i \in 1..Len(TAt(t, <<K("e")>>).vs)}

Returns(c, str) ==
  /\ err = "none"
  /\ Targets(c, result) = {TStr(str)}

(* Kinds of token, by what the path leads to in the tree.                  *)
Plain(p, tree) ==
  /\ p.kind = "token"
  /\ TAt(tree, p.path).t = "str"
  /\ ~Contains(TAt(tree, p.path).s, K("$"))

Unresolvable(p, tree) == p.kind = "token" /\ TAt(tree, p.path) = NoFile

Chained(p, tree) ==
  /\ p.kind = "token"
  /\ TAt(tree, p.path).t = "str"
  /\ Contains(TAt(tree, p.path).s, K("$"))

(* The parts of the case are text or of the kind given, at least one of    *)
(* them of that kind.                                                      *)
OnlyPlain(c) ==
  /\ \A i \in 1..Len(c.parts) :
       c.parts[i].kind = "text" \/ Plain(c.parts[i], VarsTree(c))
  /\ \E i \in 1..Len(c.parts) : Plain(c.parts[i], VarsTree(c))

OnlyUnresolvable(c) ==
  /\ \A i \in 1..Len(c.parts) :
       c.parts[i].kind = "text" \/ Unresolvable(c.parts[i], VarsTree(c))
  /\ \E i \in 1..Len(c.parts) : Unresolvable(c.parts[i], VarsTree(c))

OnlyEscaped(c) ==
  /\ \A i \in 1..Len(c.parts) : c.parts[i].kind \in {"text", "escaped"}
  /\ \E i \in 1..Len(c.parts) : c.parts[i].kind = "escaped"

(* One chained token, with or without text around it.                      *)
OneChained(c) ==
  /\ \A i \in 1..Len(c.parts) :
       c.parts[i].kind = "text" \/ Chained(c.parts[i], VarsTree(c))
  /\ Cardinality({i \in 1..Len(c.parts) : c.parts[i].kind = "token"}) = 1

Called == pc \in {"expanded", "raised"}

(* C6: variable resolution.  A string of text and tokens whose paths lead  *)
(* to strings, in any number and placement, adjacent tokens included,      *)
(* comes back with every token replaced by its string and the text around  *)
(* it unchanged.                                                           *)
C6_VariableResolution ==
  (Called /\ OnlyPlain(storage)) => Returns(storage, IdealString(storage))

(* C7: unresolvable reference.  A string of text and tokens whose paths    *)
(* cannot be descended (a segment is no key of the mapping reached, or the *)
(* value reached before the last segment is a scalar, a string, a list or  *)
(* null) comes back unchanged, and nothing is raised.                      *)
C7_UnresolvableReference ==
  (Called /\ OnlyUnresolvable(storage)) => Returns(storage, InputString(storage))

(* C8: escaped token.  A string of text and escaped tokens, wherever it    *)
(* sits and whether or not a second location holds the same string, comes  *)
(* back with the backslashes removed and the tokens left literal.          *)
C8_EscapedToken ==
  (Called /\ OnlyEscaped(storage)) => Returns(storage, IdealString(storage))

(* C9: single pass.  A string with one token whose path leads to a string  *)
(* that itself holds a token comes back holding that inner token as text:  *)
(* what a substitution produced is not substituted again.                  *)
C9_SinglePass ==
  (Called /\ OneChained(storage)) => Returns(storage, IdealString(storage))

-----------------------------------------------------------------------------
(* The output order read off the storage: depth first from the node's      *)
(* classes list, each class once, a class after the classes it includes,   *)
(* the node's document last.                                               *)

IncludedSeq(doc) ==
  IF THas(doc, KClasses)
  THEN [i \in 1..Len(TItem(doc, KClasses).vs) |-> TItem(doc, KClasses).vs[i].s]
  ELSE <<>>

RECURSIVE VisitList(_, _, _)
RECURSIVE VisitClass(_, _)

Emit(c, st) == [seen |-> st.seen, out |-> Append(st.out, c)]

VisitClass(c, st) ==
  IF c \in st.seen \/ ~HasFile(storage.files, c) THEN st
  ELSE Emit(c, VisitList(IncludedSeq(storage.files[c]), 1,
                         [seen |-> st.seen \cup {c}, out |-> st.out]))

VisitList(q, i, st) ==
  IF i > Len(q) THEN st
  ELSE VisitList(q, i + 1, VisitClass(q[i], st))

NodeDoc == IF storage.node = NoFile THEN TEmpty ELSE storage.node

PostOrder == VisitList(IncludedSeq(NodeDoc), 1, [seen |-> {}, out |-> <<>>]).out

(* The documents as stored, in output order.                               *)
StoredDocs ==
  [i \in 1..Len(PostOrder) |-> storage.files[PostOrder[i]]]
    \o (IF Len(NodeDoc.ks) > 0 THEN <<NodeDoc>> ELSE <<>>)

RECURSIVE KeepFirst(_)
KeepFirst(q) ==
  IF Len(q) = 0 THEN <<>>
  ELSE IF \E j \in 1..(Len(q) - 1) : q[j] = q[Len(q)]
       THEN KeepFirst(SubSeq(q, 1, Len(q) - 1))
       ELSE Append(KeepFirst(SubSeq(q, 1, Len(q) - 1)), q[Len(q)])

RECURSIVE StatesFrom(_, _)
StatesFrom(docs, i) ==
  IF i > Len(docs) THEN <<>>
  ELSE (IF THas(docs[i], KStates) THEN TItem(docs[i], KStates).vs ELSE <<>>)
         \o StatesFrom(docs, i + 1)

(* The states of the stored documents in output order, first occurrences.  *)
StoredStates == KeepFirst(StatesFrom(StoredDocs, 1))

(* The environment of the last stored document that declares one.          *)
StoredEnvironment ==
  IF \E i \in 1..Len(StoredDocs) : THas(StoredDocs[i], KEnvironment)
  THEN TItem(StoredDocs[CHOOSE i \in 1..Len(StoredDocs) :
                          /\ THas(StoredDocs[i], KEnvironment)
                          /\ \A j \in (i + 1)..Len(StoredDocs) :
                               ~THas(StoredDocs[j], KEnvironment)],
             KEnvironment)
  ELSE TStr(<<>>)

(* expanded_dict_from_minion raised while composing.                       *)
ComposeRaised == pc = "raised" /\ Len(expanded_classes) > 0 /\ composed = <<>>

(* expanded_dict_from_minion has returned.                                 *)
Composed == pc \in {"finish", "done", "topped"}

ReturnedStates ==
  [i \in 1..Len(composed.states_list) |-> Freeze(heap, composed.states_list[i])]

(* C11: the states list.  expanded_dict_from_minion returns, and the       *)
(* states list it returns is the states of the documents in output order   *)
(* (a class after the classes it includes, the node's document last), each *)
(* state once, at the place of its first occurrence.                       *)
C11_StatesList ==
  /\ ~ComposeRaised
  /\ Composed => ReturnedStates = StoredStates

(* C12: the tops map.  get_tops returns, and what it returns has one key,  *)
(* the environment of the last document in output order that declares one  *)
(* (the empty string when none does), mapped to the states list.           *)
C12_TopsMap ==
  /\ pc # "raised"
  /\ pc = "topped" =>
       result = TDict(<<StoredEnvironment.s>>, <<TList(StoredStates)>>)

(* What get_pillars returns when nothing but the metadata block is there.  *)
OnlyMetadata(minion_id) ==
  TDict(<<KSaltclass>>,
        <<TDict(<<KStates, KClasses, KEnvironment, K("nodename")>>,
                <<TList(<<>>), TList(<<>>), TStr(<<>>), TStr(minion_id)>>)>>)

(* C13: missing node.  When the node has no file, nothing is raised, no    *)
(* class is loaded, and get_pillars returns the metadata block alone, with *)
(* no states, no classes, the empty environment and the node id.           *)
C13_MissingNode ==
  storage.node = NoFile =>
    /\ pc # "raised"
    /\ err = "none"
    /\ loads = <<>>
    /\ pc = "done" => result = OnlyMetadata(storage.minion_id)

(* get_pillars has returned for a node without a file, while a class named *)
(* like the node has a file with pillars, states and an environment.       *)
C13_Witness ==
  /\ storage.node = NoFile
  /\ pc = "done"
  /\ HasFile(storage.files, storage.minion_id)
  /\ THas(storage.files[storage.minion_id], KPillars)
  /\ THas(storage.files[storage.minion_id], KStates)
  /\ THas(storage.files[storage.minion_id], KEnvironment)

(* expand_classes_in_order has returned to expanded_dict_from_minion.      *)
ExpansionReturned == pc \in {"compose", "finish", "done", "topped", "raised"}
                       /\ stack = <<>> /\ Len(loads) > 0

RECURSIVE TreeMergeFrom(_, _, _)

TreeMergeValue(av, bv) ==
  IF av.t = "list" /\ bv.t = "list"
  THEN IF Len(bv.vs) > 0 /\ bv.vs[1] = TStr(K("^"))
       THEN TList(Tail(bv.vs))
       ELSE TList(av.vs \o bv.vs)
  ELSE IF av.t = "dict" /\ bv.t = "dict" THEN TreeMergeFrom(av, bv, 1)
  ELSE bv

TreeMergeFrom(a, b, i) ==
  IF i > Len(b.ks) THEN a
  ELSE TreeMergeFrom(
         IF THas(a, b.ks[i])
         THEN [a EXCEPT !.vs[KeyIndex(a.ks, b.ks[i])] =
                          TreeMergeValue(TItem(a, b.ks[i]), b.vs[i])]
         ELSE [a EXCEPT !.ks = Append(@, b.ks[i]), !.vs = Append(@, b.vs[i])],
         b, i + 1)

RECURSIVE TreeMergeAll(_, _, _)
TreeMergeAll(acc, docs, i) ==
  IF i > Len(docs) THEN acc
  ELSE TreeMergeAll(TreeMergeFrom(acc, PillarsIn(docs[i]), 1), docs, i + 1)

(* The document an entry of the expansion result was loaded from.          *)
AsLoaded(e) == IF e.v = node THEN NodeDoc ELSE storage.files[e.k]

LoadedDocs == [i \in 1..Len(expanded_classes) |-> AsLoaded(expanded_classes[i])]

(* The returned tree without the metadata block.                           *)
ReturnedPillars == TDict(Tail(result.ks), Tail(result.vs))

(* C15: incremental merging leaves the loaded documents unchanged.  When   *)
(* the expansion has returned, every document of the expansion result is   *)
(* as it was loaded; and the pillar tree returned is the merge, in output  *)
(* order, of the documents as they were loaded, so that a list starting    *)
(* with the sentinel in an including class replaces the included class's.  *)
C15_DocumentsUnchanged ==
  /\ pc = "compose" =>
       \A i \in 1..Len(expanded_classes) :
         Freeze(heap, expanded_classes[i].v) = LoadedDocs[i]
  /\ pc = "done" => ReturnedPillars = TreeMergeAll(TEmpty, LoadedDocs, 1)

====
